---- MODULE Spec2Model ----
(***************************************************************************)
(* Model of app.py: one Streamlit session of the multi agent playground.   *)
(* A text is a sequence of one-character strings, so that strip, upper,    *)
(* split, startswith, replace and join are computed as Python computes     *)
(* them.  A log entry is the literal part of the f-string and its          *)
(* interpolated argument; the timestamp prefix is left out.                *)
(***************************************************************************)
EXTENDS Integers, Sequences, FiniteSets, TLC

\* ------------------------------------------------------------ bounds
\* Number of prompts submitted in one session.
MaxTurns == 2

\* ------------------------------------------------------------ literals
kUserPrefix == <<"U", "s", "e", "r", ":", " ">>
kAssistantPrefix == <<"A", "s", "s", "i", "s", "t", "a", "n", "t", ":", " ">>
kSep == <<"\n", "\n">>
kTurnSep == <<"\n", "\n", "U", "s", "e", "r", ":", " ">>
kROUTER == <<"R", "O", "U", "T", "E", "R">>
kANTHROPIC == <<"A", "N", "T", "H", "R", "O", "P", "I", "C">>
kOLLAMA == <<"O", "L", "L", "A", "M", "A">>
kFILE == <<"F", "I", "L", "E">>
kWEB == <<"W", "E", "B">>
kGENERAL == <<"G", "E", "N", "E", "R", "A", "L">>
kErrHead == <<"E", "r", "r", "o", "r", " ", "c", "o", "n", "n", "e", "c", "t", "i", "n", "g", " ", "t", "o", " ", "O", "l", "l", "a", "m", "a", ":", " ">>
kErrTail == <<".", " ", "M", "a", "k", "e", " ", "s", "u", "r", "e", " ", "O", "l", "l", "a", "m", "a", " ", "i", "s", " ", "r", "u", "n", "n", "i", "n", "g", " ", "l", "o", "c", "a", "l", "l", "y", ".">>
\* The text load_instructions returns for the Ollama persona (file content).
ollama_instructions == <<"<", "o", "l", "l", "a", "m", "a", ">">>

LowerCase == <<"a", "b", "c", "d", "e", "f", "g", "h", "i", "j", "k", "l", "m", "n", "o", "p", "q", "r", "s", "t", "u", "v", "w", "x", "y", "z">>
UpperCase == <<"A", "B", "C", "D", "E", "F", "G", "H", "I", "J", "K", "L", "M", "N", "O", "P", "Q", "R", "S", "T", "U", "V", "W", "X", "Y", "Z">>
Whitespace == {" ", "\n", "\t", "\r"}
Digit == <<"0", "1", "2", "3", "4", "5", "6", "7", "8", "9">>

\* ------------------------------------------------------------ str methods
\* str.upper on one character.
UpperChar(c) ==
    IF \E i \in 1..Len(LowerCase) : LowerCase[i] = c
    THEN UpperCase[CHOOSE i \in 1..Len(LowerCase) : LowerCase[i] = c]
    ELSE c

\* str.upper
Upper(s) == [i \in 1..Len(s) |-> UpperChar(s[i])]

\* str.strip: drop leading and trailing whitespace.
Strip(s) ==
    LET keep == {i \in 1..Len(s) : s[i] \notin Whitespace}
    IN  IF keep = {} THEN << >>
        ELSE LET lo == CHOOSE i \in keep : \A j \in keep : i <= j
                 hi == CHOOSE i \in keep : \A j \in keep : j <= i
             IN  SubSeq(s, lo, hi)

\* final_output.strip().upper()
Normalize(raw) == Upper(Strip(raw))

\* str.startswith
StartsWith(s, p) == Len(s) >= Len(p) /\ SubSeq(s, 1, Len(p)) = p

\* Index of the first occurrence of sub in s, 0 when there is none (sub non-empty).
Find(s, sub) ==
    LET hits == {i \in 1..(Len(s) - Len(sub) + 1) : SubSeq(s, i, i + Len(sub) - 1) = sub}
    IN  IF hits = {} THEN 0 ELSE CHOOSE i \in hits : \A j \in hits : i <= j

RECURSIVE Split(_, _)
\* str.split(sep): the pieces between the non-overlapping occurrences of sep, left to right.
Split(s, sep) ==
    LET i == Find(s, sep)
    IN  IF i = 0 THEN <<s>>
        ELSE <<SubSeq(s, 1, i - 1)>> \o Split(SubSeq(s, i + Len(sep), Len(s)), sep)

RECURSIVE Replace(_, _, _)
\* str.replace(old, new): every non-overlapping occurrence of old, left to right.
Replace(s, old, new) ==
    LET i == Find(s, old)
    IN  IF i = 0 THEN s
        ELSE SubSeq(s, 1, i - 1) \o new \o Replace(SubSeq(s, i + Len(old), Len(s)), old, new)

RECURSIVE Join(_, _)
\* sep.join(parts)
Join(parts, sep) ==
    IF Len(parts) = 0 THEN << >>
    ELSE IF Len(parts) = 1 THEN parts[1]
    ELSE parts[1] \o sep \o Join(Tail(parts), sep)

RECURSIVE IntToStr(_)
\* The decimal text an f-string gives a non-negative int.
IntToStr(n) ==
    IF n < 10 THEN <<Digit[n + 1]>>
    ELSE IntToStr(n \div 10) \o <<Digit[(n % 10) + 1]>>

\* ------------------------------------------------------------ inputs
\* What the user types into the chat input.
Prompts == { <<"h", "i">> }
\* final_output of the switch classifier.
SwitchOutputs == { kROUTER,
                   <<" ", "r", "o", "u", "t", "e", "r", "\n">>,
                   <<"A", "n", "t", "h", "r", "o", "p", "i", "c">>,
                   kOLLAMA,
                   <<"R", "o", "u", "t", "e", "r", ".">> }
\* final_output of the sub-route classifier.
SubRouteOutputs == { kFILE,
                     <<" ", "w", "e", "b", " ">>,
                     kGENERAL,
                     << >>,
                     <<"w", "e", "b", " ", "s", "e", "a", "r", "c", "h", ".">> }
\* Text a backend answers with.
BackendOutputs == { <<"o", "k">>, <<"p", "\n", "\n", "q">> }
\* str(e) of what the Ollama chat call raises.
Errors == { <<"r", "e", "f", "u", "s", "e", "d">> }

\* ------------------------------------------------------------ state
VARIABLES
    has_messages,          \* "messages" in st.session_state
    messages,              \* st.session_state.messages
    has_logs,              \* "system_logs" in st.session_state
    system_logs,           \* st.session_state["system_logs"]
    pc,                    \* where the script run stands
    prompt,                \* prompt / goal of the turn
    conversation_history,  \* the serialized history of the turn
    full_prompt,           \* custom_agent_runner's full_prompt
    decision,              \* custom_agent_runner's decision
    sub_decision,          \* custom_agent_runner's sub_decision
    assistant_message,     \* what generate_tasks returned
    calls,                 \* the remote calls of the turn, in order
    handoff_to,            \* the agent RouterAgent handed off to in its run
    turns,                 \* prompts submitted so far
    outcome,               \* how the last turn ended
    prev_messages          \* the stored history when the turn's prompt arrived

vars == << has_messages, messages, has_logs, system_logs, pc, prompt,
           conversation_history, full_prompt, decision, sub_decision,
           assistant_message, calls, handoff_to, turns, outcome, prev_messages >>

locals == << prompt, conversation_history, full_prompt, prev_messages >>
session == << has_messages, messages, has_logs >>

\* ------------------------------------------------------------ helpers
\* One log line: the f-string's literal text and its interpolated value.
Entry(text, arg) == [text |-> text, arg |-> arg]

\* log_system_message: setdefault, then append.
log_system_message(logs, text, arg) == Append(logs, Entry(text, arg))

\* Several log_system_message calls in a row.
LogAll(logs, entries) == logs \o entries

\* {"role": "user", "content": prompt}
UserEntry(p) == [role |-> "user", content |-> p]

\* Faulty variant of AssistantEntry: the role of line 275 copied to line 299.
AssistantEntryAsUser(msg) == [role |-> "user", content |-> msg]

\* {"role": "assistant", "content": assistant_message}
AssistantEntry(msg) == [role |-> "assistant", content |-> msg]

\* f"{'User' if msg['role'] == 'user' else 'Assistant'}: {msg['content']}"
FormatMessage(msg) ==
    (IF msg.role = "user" THEN kUserPrefix ELSE kAssistantPrefix) \o msg.content

\* Faulty variant of HistorySlice: the slice [:-1] left out.
HistorySliceAll(msgs) == msgs

\* st.session_state.messages[:-1]
HistorySlice(msgs) == SubSeq(msgs, 1, Len(msgs) - 1)

\* "\n\n".join of the formatted messages.
Serialize(msgs) == Join([i \in 1..Len(msgs) |-> FormatMessage(msgs[i])], kSep)

\* f"{conversation_history}\n\nUser: {goal}" if conversation_history else goal
FullPrompt(goal, history) ==
    IF history # << >> THEN history \o kTurnSep \o goal ELSE goal

RECURSIVE ParseLines(_)
\* The loop over conversation_history.split("\n\n") of both adapters.
ParseLines(lines) ==
    IF lines = << >> THEN << >>
    ELSE LET line == Head(lines)
             rest == ParseLines(Tail(lines))
         IN  IF StartsWith(line, kUserPrefix)
             THEN <<[role |-> "user", content |-> Replace(line, kUserPrefix, << >>)]>> \o rest
             ELSE IF StartsWith(line, kAssistantPrefix)
             THEN <<[role |-> "assistant", content |-> Replace(line, kAssistantPrefix, << >>)]>> \o rest
             ELSE rest

\* The history part of an adapter's message list.
ParseHistory(history) ==
    IF history # << >> THEN ParseLines(Split(history, kSep)) ELSE << >>

\* messages of generate_anthropic_response
AnthropicMessages(goal, history) ==
    ParseHistory(history) \o <<[role |-> "user", content |-> goal]>>

\* messages of generate_ollama_response
OllamaMessages(goal, history) ==
    <<[role |-> "system", content |-> ollama_instructions]>>
        \o ParseHistory(history) \o <<[role |-> "user", content |-> goal]>>

\* f"Error connecting to Ollama: {str(e)}. Make sure Ollama is running locally."
OllamaErrorText(e) == kErrHead \o e \o kErrTail

\* Faulty variant of SubRouteAgent: startswith in place of ==.
SubRouteAgentByPrefix(sub) ==
    IF StartsWith(sub, kFILE) THEN "file"
    ELSE IF StartsWith(sub, kWEB) THEN "web"
    ELSE "router"

\* The agent the ROUTER branch runs for a sub-decision.
SubRouteAgent(sub) ==
    IF sub = kFILE THEN "file"
    ELSE IF sub = kWEB THEN "web"
    ELSE "router"

\* One remote call: whom, with which prompt or message list, and how it ended.
Call(target, input, msgs) ==
    [target |-> target, input |-> input, messages |-> msgs,
     status |-> "pending", output |-> << >>]

\* The pending call ends.
Ended(cs, status, out) ==
    [cs EXCEPT ![Len(cs)] = [@ EXCEPT !.status = status, !.output = out]]

\* Faulty variant of NeedsInit: the membership test left out.
NeedsInitAlways == TRUE

\* if "messages" not in st.session_state
NeedsInit == ~has_messages

\* ------------------------------------------------------------ Init
Init ==
    /\ has_messages = FALSE
    /\ messages = << >>
    /\ has_logs = FALSE
    /\ system_logs = << >>
    /\ pc = "idle"
    /\ prompt = << >>
    /\ conversation_history = << >>
    /\ full_prompt = << >>
    /\ decision = << >>
    /\ sub_decision = << >>
    /\ assistant_message = << >>
    /\ calls = << >>
    /\ handoff_to = "none"
    /\ turns = 0
    /\ outcome = "none"
    /\ prev_messages = << >>

\* ------------------------------------------------------------ actions
\* The session-state initialization every script run starts with.
InitMessages == IF NeedsInit THEN << >> ELSE messages
InitLogs ==
    IF NeedsInit THEN log_system_message(system_logs, "Application initialized", << >>)
    ELSE system_logs

\* A script run with no chat input (first page load, or any rerun).
Rerun ==
    /\ pc = "idle"
    /\ has_messages' = TRUE
    /\ messages' = InitMessages
    /\ system_logs' = InitLogs
    /\ has_logs' = (has_logs \/ NeedsInit)
    /\ UNCHANGED << pc, locals, decision, sub_decision, assistant_message,
                    calls, handoff_to, turns, outcome >>

\* A script run with a prompt: everything up to the await of the switch agent.
SubmitPrompt(p) ==
    /\ pc = "idle"
    /\ has_messages
    /\ turns < MaxTurns
    /\ p # << >>
    /\ LET msgs0 == InitMessages
           msgs1 == Append(msgs0, UserEntry(p))
           prev  == HistorySlice(msgs1)
           hist  == Serialize(prev)
           fp    == FullPrompt(p, hist)
       IN  /\ has_messages' = TRUE
           /\ has_logs' = TRUE
           /\ messages' = msgs1
           /\ prev_messages' = msgs0
           /\ prompt' = p
           /\ conversation_history' = hist
           /\ full_prompt' = fp
           /\ system_logs' = LogAll(InitLogs, <<
                  Entry("User input received", p),
                  Entry("User message saved to history", << >>),
                  Entry("Generating agent response...", << >>),
                  Entry("Added N previous messages to context", IntToStr(Len(msgs1) - 1)),
                  Entry("Sending prompt to switch agent", << >> ) >>)
           /\ calls' = <<Call("switch", fp, << >>)>>
    /\ pc' = "switch"
    /\ decision' = << >>
    /\ sub_decision' = << >>
    /\ assistant_message' = << >>
    /\ handoff_to' = "none"
    /\ turns' = turns + 1
    /\ outcome' = "running"

\* An exception leaves asyncio.run and ends the script run.
TurnFails ==
    /\ pc' = "idle"
    /\ outcome' = "failed"
    /\ calls' = Ended(calls, "raised", << >>)
    /\ UNCHANGED << session, system_logs, locals, decision, sub_decision,
                    assistant_message, handoff_to, turns >>

\* generate_tasks returns out: st.markdown and the log line inside the with block.
ReturnsToScript(logs, out) ==
    /\ assistant_message' = out
    /\ system_logs' = log_system_message(logs, "Assistant message saved to history", << >>)
    /\ pc' = "saving"

\* The switch agent answers raw; the branch is taken up to its first await.
SwitchReturns(raw) ==
    /\ pc = "switch"
    /\ LET d  == Normalize(raw)
           l0 == log_system_message(system_logs, "Switch decision", d)
           cs == Ended(calls, "returned", raw)
       IN  /\ decision' = d
           /\ IF d = kROUTER
              THEN /\ system_logs' = log_system_message(l0, "Routing to OpenAI Router Agent", << >>)
                   /\ calls' = Append(cs, Call("subroute", full_prompt, << >>))
                   /\ pc' = "subroute"
              ELSE IF d = kANTHROPIC
              THEN /\ system_logs' = LogAll(l0, <<
                          Entry("Routing to Anthropic Claude", << >>),
                          Entry("Sending prompt to Claude agent", << >>) >>)
                   /\ calls' = Append(cs, Call("anthropic", << >>,
                                  AnthropicMessages(prompt, conversation_history)))
                   /\ pc' = "anthropic"
              ELSE IF d = kOLLAMA
              THEN /\ system_logs' = LogAll(l0, <<
                          Entry("Routing to Ollama (Offline)", << >>),
                          Entry("Sending prompt to Ollama agent", << >>) >>)
                   /\ calls' = Append(cs, Call("ollama", << >>,
                                  OllamaMessages(prompt, conversation_history)))
                   /\ pc' = "ollama"
              ELSE /\ system_logs' = log_system_message(l0,
                          "Unclear decision, defaulting to OpenAI Router", << >>)
                   /\ calls' = Append(cs, Call("router", full_prompt, << >>))
                   /\ pc' = "agent"
    /\ UNCHANGED << session, locals, sub_decision, assistant_message,
                    handoff_to, turns, outcome >>

\* Runner.run of the switch agent raises.
SwitchRaises ==
    /\ pc = "switch"
    /\ TurnFails

\* The sub-route classifier answers raw; the chosen agent is started.
SubRouteReturns(raw) ==
    /\ pc = "subroute"
    /\ LET sd == Normalize(raw)
           ag == SubRouteAgent(sd)
       IN  /\ sub_decision' = sd
           /\ system_logs' = LogAll(system_logs, <<
                  Entry("Router sub-decision", sd),
                  Entry(CASE ag = "file" -> "Handoff to FileSearch agent"
                          [] ag = "web" -> "Handoff to WebSearch agent"
                          [] OTHER -> "Handling with base OpenAI agent", << >>) >>)
           /\ calls' = Append(Ended(calls, "returned", raw), Call(ag, full_prompt, << >>))
    /\ pc' = "agent"
    /\ UNCHANGED << session, locals, decision, assistant_message,
                    handoff_to, turns, outcome >>

\* Runner.run of the sub-route classifier raises.
SubRouteRaises ==
    /\ pc = "subroute"
    /\ TurnFails

\* Inside Runner.run(router_agent, ...): the agent hands off and on_handoff logs it.
RouterHandoff(agent_type) ==
    /\ pc = "agent"
    /\ calls[Len(calls)].target = "router"
    /\ handoff_to = "none"
    /\ handoff_to' = agent_type
    /\ system_logs' = log_system_message(system_logs,
           IF agent_type = "FileSearch" THEN "Handoff to FileSearch agent"
           ELSE "Handoff to WebSearch agent", << >>)
    /\ UNCHANGED << session, pc, locals, decision, sub_decision,
                    assistant_message, calls, turns, outcome >>

\* Faulty variant of AgentReturns: .strip().upper() applied to the answer too.
AgentReturnsNormalized(out) ==
    /\ pc = "agent"
    /\ ReturnsToScript(system_logs, Normalize(out))
    /\ calls' = Ended(calls, "returned", out)
    /\ UNCHANGED << session, locals, decision, sub_decision, handoff_to, turns, outcome >>

\* Runner.run of the chosen OpenAI agent returns; result.final_output is returned.
AgentReturns(out) ==
    /\ pc = "agent"
    /\ ReturnsToScript(system_logs, out)
    /\ calls' = Ended(calls, "returned", out)
    /\ UNCHANGED << session, locals, decision, sub_decision, handoff_to, turns, outcome >>

\* Runner.run of the chosen OpenAI agent raises.
AgentRaises ==
    /\ pc = "agent"
    /\ TurnFails

\* anthropic_client.messages.create returns; response.content[0].text is returned.
AnthropicReturns(out) ==
    /\ pc = "anthropic"
    /\ ReturnsToScript(
           log_system_message(system_logs, "Claude response received", << >>), out)
    /\ calls' = Ended(calls, "returned", out)
    /\ UNCHANGED << session, locals, decision, sub_decision, handoff_to, turns, outcome >>

\* Faulty variant of AnthropicRaises: the error turned into a message, as for Ollama.
AnthropicRaisesCaught ==
    /\ pc = "anthropic"
    /\ ReturnsToScript(system_logs, kErrHead)
    /\ calls' = Ended(calls, "raised", << >>)
    /\ UNCHANGED << session, locals, decision, sub_decision, handoff_to, turns, outcome >>

\* anthropic_client.messages.create raises: nothing catches it.
AnthropicRaises ==
    /\ pc = "anthropic"
    /\ TurnFails

\* chat(...) returns; response['message']['content'] is returned.
OllamaReturns(out) ==
    /\ pc = "ollama"
    /\ ReturnsToScript(
           log_system_message(system_logs, "Ollama response received", << >>), out)
    /\ calls' = Ended(calls, "returned", out)
    /\ UNCHANGED << session, locals, decision, sub_decision, handoff_to, turns, outcome >>

\* Faulty variant of OllamaRaises: no try/except around chat(...).
OllamaRaisesUncaught(e) ==
    /\ pc = "ollama"
    /\ TurnFails

\* chat(...) raises e: the except clause logs it and returns the error text.
OllamaRaises(e) ==
    /\ pc = "ollama"
    /\ ReturnsToScript(
           log_system_message(system_logs, "Ollama error", e), OllamaErrorText(e))
    /\ calls' = Ended(calls, "raised", e)
    /\ UNCHANGED << session, locals, decision, sub_decision, handoff_to, turns, outcome >>

\* After the with block: the assistant message is appended and the turn is logged complete.
FinishTurn ==
    /\ pc = "saving"
    /\ messages' = Append(messages, AssistantEntry(assistant_message))
    /\ system_logs' = log_system_message(system_logs, "Conversation turn complete", << >>)
    /\ pc' = "idle"
    /\ outcome' = "complete"
    /\ UNCHANGED << has_messages, has_logs, locals, decision, sub_decision,
                    assistant_message, calls, handoff_to, turns >>

Next ==
    \/ Rerun
    \/ \E p \in Prompts : SubmitPrompt(p)
    \/ \E raw \in SwitchOutputs : SwitchReturns(raw)
    \/ SwitchRaises
    \/ \E raw \in SubRouteOutputs : SubRouteReturns(raw)
    \/ SubRouteRaises
    \/ \E t \in {"FileSearch", "WebSearch"} : RouterHandoff(t)
    \/ \E out \in BackendOutputs : AgentReturns(out)
    \/ AgentRaises
    \/ \E out \in BackendOutputs : AnthropicReturns(out)
    \/ AnthropicRaises
    \/ \E out \in BackendOutputs : OllamaReturns(out)
    \/ \E e \in Errors : OllamaRaises(e)
    \/ FinishTurn

Spec == Init /\ [][Next]_vars

\* ------------------------------------------------------------ observations
LastCall == calls[Len(calls)]
AgentTargets == {"file", "web", "router"}
BackendTargets == AgentTargets \cup {"anthropic", "ollama"}
BackendCalls == {i \in 1..Len(calls) : calls[i].target \in BackendTargets}
KnownDecisions == {kROUTER, kANTHROPIC, kOLLAMA}
RunnerPcs == {"switch", "subroute", "agent", "anthropic", "ollama"}

\* The log lines of the latest turn, from its 'User input received' on.
TurnStart ==
    LET starts == {i \in 1..Len(system_logs) : system_logs[i].text = "User input received"}
    IN  CHOOSE i \in starts : \A j \in starts : j <= i
TurnLog == SubSeq(system_logs, TurnStart, Len(system_logs))
TurnTexts == LET tl == TurnLog IN [i \in 1..Len(tl) |-> tl[i].text]
Positions(text) == LET tt == TurnTexts IN {i \in 1..Len(tt) : tt[i] = text}
InitCount == Cardinality({i \in 1..Len(system_logs) :
                              system_logs[i].text = "Application initialized"})
IsPrefix(a, b) == Len(a) <= Len(b) /\ SubSeq(b, 1, Len(a)) = a

\* The agent the decision table names for a sub-route output.
TableAgent(n) == IF n = kFILE THEN "file" ELSE IF n = kWEB THEN "web" ELSE "router"

\* ------------------------------------------------------------ claims

\* C1: a switch output that normalizes to none of ROUTER, ANTHROPIC, OLLAMA is
\* handled as ROUTER: the sub-route classifier has run before the backend is
\* invoked, and the backend is the one its output selects.
C1_UnrecognizedHandledAsRouter ==
    \A i \in BackendCalls :
        (decision \notin KnownDecisions) =>
            /\ i > 1
            /\ calls[i - 1].target = "subroute"
            /\ calls[i - 1].status = "returned"
            /\ calls[i].target = TableAgent(Normalize(calls[i - 1].output))

\* C2: under a ROUTER decision the trimmed, upper-cased sub-route output picks the
\* agent: FILE the file-search agent, WEB the web-search agent, GENERAL and every
\* other output the general router agent; under ANTHROPIC or OLLAMA the sub-route
\* classifier is never called.
C2_SubRouteSelectsBackend ==
    /\ (decision = kROUTER /\ Len(calls) >= 2 /\ calls[2].status = "returned") =>
            /\ calls[2].target = "subroute"
            /\ Len(calls) = 3
            /\ calls[3].target = TableAgent(Normalize(calls[2].output))
            /\ calls[3].input = full_prompt
    /\ (decision = kROUTER) =>
            \A i \in BackendCalls : i = 3 /\ calls[i].target \in AgentTargets
    /\ (decision \in {kANTHROPIC, kOLLAMA}) =>
            \A i \in 1..Len(calls) : calls[i].target # "subroute"

C2_Witness ==
    /\ outcome = "complete"
    /\ decision = kROUTER
    /\ calls[1].output = <<" ", "r", "o", "u", "t", "e", "r", "\n">>
    /\ calls[2].output = <<"w", "e", "b", " ", "s", "e", "a", "r", "c", "h", ".">>
    /\ calls[3].target = "router"

\* C3: a completed turn has invoked exactly one backend, once, the one the decision
\* (and sub-decision) names, and the assistant message stored last is the text
\* that backend returned, unchanged.
C3_ExpectedBackend ==
    IF decision = kROUTER THEN TableAgent(sub_decision)
    ELSE IF decision = kANTHROPIC THEN "anthropic"
    ELSE IF decision = kOLLAMA THEN "ollama"
    ELSE "router"

C4_HistoryRebuiltExactly ==
    \A i \in 1..Len(calls) :
        /\ (calls[i].target = "anthropic") =>
               calls[i].messages = prev_messages \o <<[role |-> "user", content |-> prompt]>>
        /\ (calls[i].target = "ollama") =>
               calls[i].messages =
                   <<[role |-> "system", content |-> ollama_instructions]>>
                       \o prev_messages \o <<[role |-> "user", content |-> prompt]>>

\* C5: when the Ollama chat call raises, the turn does not fail: the adapter
\* returns the error text, the turn can finish, and once finished the history has
\* grown by the user message and an assistant message holding that text, with
\* the Ollama error logged before 'Conversation turn complete'.
C5_OllamaErrorBecomesMessage ==
    (Len(calls) > 0 /\ LastCall.target = "ollama" /\ LastCall.status = "raised") =>
        LET text == kErrHead \o LastCall.output \o kErrTail
        IN  /\ outcome \in {"running", "complete"}
            /\ assistant_message = text
            /\ LET tl == TurnLog
               IN  \E i \in Positions("Ollama error") : tl[i].arg = LastCall.output
            /\ (pc = "saving") => ENABLED FinishTurn
            /\ (outcome = "running") => pc = "saving"
            /\ (outcome = "complete") =>
                   /\ messages = prev_messages \o
                          << [role |-> "user", content |-> prompt],
                             [role |-> "assistant", content |-> text] >>
                   /\ \A i \in Positions("Ollama error") :
                          \A j \in Positions("Conversation turn complete") : i < j
                   /\ Positions("Conversation turn complete") # {}

C5_Witness ==
    /\ outcome = "complete"
    /\ LastCall.target = "ollama"
    /\ LastCall.status = "raised"
    /\ Len(prev_messages) > 0

\* C6: when the call of an OpenAI agent or of the Anthropic adapter raises, the
\* turn fails: no assistant message is stored, neither 'Assistant message saved'
\* nor 'Conversation turn complete' is logged, and the turn's user message stays.
C6_OtherErrorsFailTurn ==
    (Len(calls) > 0 /\ LastCall.target \in AgentTargets \cup {"anthropic"}
        /\ LastCall.status = "raised") =>
        /\ outcome = "failed"
        /\ pc = "idle"
        /\ messages = prev_messages \o <<[role |-> "user", content |-> prompt]>>
        /\ Positions("Assistant message saved to history") = {}
        /\ Positions("Conversation turn complete") = {}

C6_Witness ==
    /\ outcome = "failed"
    /\ LastCall.target = "anthropic"
    /\ Len(prev_messages) > 0

\* C7: during and after a turn the history handed to the orchestrator is the
\* serialization of exactly the messages stored before the prompt, in order; the
\* prompt is the stored message after them and reaches the remote calls once: as
\* the "User: <prompt>" tail of full_prompt (the bare prompt when nothing was
\* stored), or as the final user message of an adapter; switch, sub-route and
\* OpenAI agent get the same full_prompt; the logged number of previous messages
\* is the number of those messages.
C7_HistoryExcludesPrompt ==
    (outcome # "none") =>
        /\ IsPrefix(prev_messages \o <<[role |-> "user", content |-> prompt]>>, messages)
        /\ conversation_history =
               Join([i \in 1..Len(prev_messages) |->
                        (IF prev_messages[i].role = "user" THEN kUserPrefix
                         ELSE kAssistantPrefix) \o prev_messages[i].content], kSep)
        /\ (prev_messages = << >>) => (conversation_history = << >> /\ full_prompt = prompt)
        /\ (prev_messages # << >>) =>
               /\ conversation_history # << >>
               /\ full_prompt = conversation_history \o kTurnSep \o prompt
        /\ \A i \in 1..Len(calls) :
               /\ (calls[i].target \in AgentTargets \cup {"switch", "subroute"}) =>
                      calls[i].input = full_prompt
               /\ (calls[i].target \in {"anthropic", "ollama"}) =>
                      /\ calls[i].messages[Len(calls[i].messages)]
                             = [role |-> "user", content |-> prompt]
                      /\ calls[i].input = << >>
        /\ LET tl == TurnLog
               added == Positions("Added N previous messages to context")
           IN  /\ \A i \in added : tl[i].arg = IntToStr(Len(prev_messages))
               /\ Cardinality(added) = 1

C7_Witness ==
    /\ pc = "agent"
    /\ Len(prev_messages) = 2
    /\ LastCall.input = full_prompt
    /\ Len(calls) = 3

\* C8 as stated: between turns the stored history strictly alternates user,
\* assistant, ... and ends with assistant, so its length is even.
C8_StrictAlternation ==
    (pc = "idle") =>
        /\ Len(messages) % 2 = 0
        /\ \A i \in 1..Len(messages) :
               messages[i].role = (IF i % 2 = 1 THEN "user" ELSE "assistant")

\* C8 amended: between turns the stored history starts with a user message, every
\* assistant message directly follows a user message, and the history ends with
\* an assistant message exactly when the last turn completed (with the user
\* message of that turn when it failed).
C8_AssistantFollowsUser ==
    (pc = "idle") =>
        /\ \A i \in 1..Len(messages) :
               /\ messages[i].role \in {"user", "assistant"}
               /\ (messages[i].role = "assistant") =>
                      (i > 1 /\ messages[i - 1].role = "user")
        /\ (outcome = "none") => messages = << >>
        /\ (outcome = "complete") => messages[Len(messages)].role = "assistant"
        /\ (outcome = "failed") => messages[Len(messages)].role = "user"

C8_Witness ==
    /\ pc = "idle"
    /\ outcome = "complete"
    /\ Len(messages) = 3
    /\ messages[1].role = "user"
    /\ messages[2].role = "user"

\* C9: history and log only grow: each step leaves the old history and the old log
\* as prefixes of the new ones, the history is set to empty only when the session
\* has none, a step of custom_agent_runner or of an adapter leaves the history
\* alone, and 'Application initialized' is logged at most once.
C9_Step ==
    /\ IsPrefix(messages, messages')
    /\ IsPrefix(system_logs, system_logs')
    /\ has_messages => (has_messages' /\ (messages = << >> \/ messages' # << >>))
    /\ has_logs => has_logs'
    /\ (pc \in RunnerPcs) => messages' = messages

C9_AppendOnly == [][C9_Step]_vars /\ [](InitCount <= 1)

C9_Witness ==
    /\ turns = 2
    /\ outcome = "complete"
    /\ Len(messages) = 4
    /\ InitCount = 1

\* C10: the log lines of a turn come in the fixed order (input received, user
\* message saved, generating, added N, sending to switch, one switch decision,
\* the routing line of the path, turn complete last); no backend is called before
\* the switch decision is logged; a sub-decision line appears only under a ROUTER
\* decision; and whenever a 'saved to history' line is in the log, the message it
\* names is in the stored history.
C10_Order ==
    LET tl == TurnLog
        tt == TurnTexts
        head == << "User input received", "User message saved to history",
                   "Generating agent response...", "Added N previous messages to context",
                   "Sending prompt to switch agent", "Switch decision" >>
    IN  /\ IsPrefix(tt, head)
           \/ /\ SubSeq(tt, 1, 6) = head
              /\ Len(tt) >= 7
              /\ tt[7] =
                    (IF tl[6].arg = kROUTER THEN "Routing to OpenAI Router Agent"
                     ELSE IF tl[6].arg = kANTHROPIC THEN "Routing to Anthropic Claude"
                     ELSE IF tl[6].arg = kOLLAMA THEN "Routing to Ollama (Offline)"
                     ELSE "Unclear decision, defaulting to OpenAI Router")
        /\ Cardinality(Positions("Switch decision")) <= 1
        /\ \A i \in Positions("Conversation turn complete") : i = Len(tt)
        /\ (outcome = "complete") => Positions("Conversation turn complete") # {}

C10_NoBackendBeforeDecision ==
    /\ (BackendCalls # {}) => Positions("Switch decision") # {}
    /\ (Positions("Router sub-decision") # {}) =>
           /\ decision = kROUTER
           /\ LET tl == TurnLog
              IN  \A i \in Positions("Router sub-decision") :
                      \E j \in Positions("Switch decision") : j < i /\ tl[j].arg = kROUTER

C10_SavedMeansStored ==
    /\ (Positions("User message saved to history") # {}) =>
           IsPrefix(prev_messages \o <<[role |-> "user", content |-> prompt]>>, messages)
    /\ (Positions("Assistant message saved to history") # {}) =>
           messages = prev_messages \o
               << [role |-> "user", content |-> prompt],
                  [role |-> "assistant", content |-> assistant_message] >>

C10_LogOrder ==
    (turns > 0) =>
        /\ C10_Order
        /\ C10_NoBackendBeforeDecision
        /\ C10_SavedMeansStored

====
